---- MODULE Spec2Model ----
(***************************************************************************)
(* A model of the Streams message codec: the HDF header script             *)
(* (lets/src/message/hdf.rs) and the Keyload key-agreement script          *)
(* (iota-streams-app-channels/src/message/keyload.rs), run over a symbolic *)
(* duplex sponge, with the Identity constructors (lets/src/id/identity.rs) *)
(* and UnwrappedMessage::commit (iota-streams-app/src/message/unwrapped.rs).*)
(*                                                                         *)
(* Bytes are tokens [k, v, i, s].  A literal byte is k = "b" with value v. *)
(* Every other token stands for a pseudo-random byte that is a function of *)
(* the sponge state s (a sequence of tokens) and the index i; its v is the *)
(* XOR difference from that pseudo-random byte, so that flipping a bit of  *)
(* any wire byte is a change of v.  The permutation is taken as ideal:     *)
(* pseudo-random bytes of different (k, i, s) are different bytes, and a   *)
(* pseudo-random byte never equals a value the scripts test for.           *)
(* The bytes one sponge operation produces are written to the stream as    *)
(* one run with indices 1..n; only the first byte of a run carries the     *)
(* state, the others are its continuation.                                 *)
(***************************************************************************)
EXTENDS Integers, Sequences, FiniteSets, TLC

(* ------------------------------------------------------------------ *)
(* Program constants                                                  *)
(* ------------------------------------------------------------------ *)
STREAMS_1_VER == 0
HDF_ID == 0
UTF8 == 0
MacSize == 32
TopicHashSize == 16
MsgIdSize == 12
NonceSize == 16
KeySize == 32
PskSize == 32
PskIdSize == 16
PublicKeySize == 32
HashSize == 64
SignatureSize == 64
EdDeadBranch == 64

(* ------------------------------------------------------------------ *)
(* Bytes and bit operations                                           *)
(* ------------------------------------------------------------------ *)
Tok(k, v, i, s) == [k |-> k, v |-> v, i |-> i, s |-> s]

Lit(n) == Tok("b", n, 0, <<>>)

IsLit(t) == t.k = "b"

Lits(n, v) == [j \in 1..n |-> Lit(v)]

AllLit(bs) == \A j \in 1..Len(bs) : IsLit(bs[j])

RECURSIVE BitOp(_, _, _, _)
BitOp(op, a, b, n) ==
  IF n = 0 THEN 0
  ELSE LET x == a % 2
           y == b % 2
           z == CASE op = "and" -> x * y
                  [] op = "or" -> IF x + y > 0 THEN 1 ELSE 0
                  [] OTHER -> (x + y) % 2
       IN z + 2 * BitOp(op, a \div 2, b \div 2, n - 1)

BitAnd(a, b) == BitOp("and", a, b, 16)

BitOr(a, b) == BitOp("or", a, b, 16)

BitXor(a, b) == BitOp("xor", a, b, 16)

U8(n) == n % 256

Shl8(a, n) == (a * (2 ^ n)) % 256

Shr(a, n) == a \div (2 ^ n)

Shl16(a, n) == (a * (2 ^ n)) % 65536

RECURSIVE BeBytes(_, _)
BeBytes(n, d) == IF d = 0 THEN <<>> ELSE Append(BeBytes(n \div 256, d - 1), Lit(n % 256))

RECURSIVE BeValue(_)
BeValue(bs) ==
  IF bs = <<>> THEN 0 ELSE 256 * BeValue(SubSeq(bs, 1, Len(bs) - 1)) + bs[Len(bs)].v

RECURSIVE SizeBytes(_)
SizeBytes(n) == IF n = 0 THEN 0 ELSE 1 + SizeBytes(n \div 256)

SizeEnc(n) == <<Lit(SizeBytes(n))>> \o BeBytes(n, SizeBytes(n))

(* ------------------------------------------------------------------ *)
(* Spongos                                                            *)
(* ------------------------------------------------------------------ *)
CommitTok == Tok("commit", 0, 0, <<>>)

SpAbsorb(s, bytes) == s \o bytes

SpCommit(s) == IF s = <<>> \/ s[Len(s)].k = "commit" THEN s ELSE Append(s, CommitTok)

Head1(j, s) == IF j = 1 THEN s ELSE <<>>

SpSqueeze(s, n) == [j \in 1..n |-> Tok("sq", 0, j, Head1(j, SpCommit(s)))]

SpAfterSqueeze(s, n) == Append(SpCommit(s), Tok("squeezed", n, 0, <<>>))

SpEncrypt(s, plain) == [j \in 1..Len(plain) |-> Tok("enc", 0, j, <<plain[j]>> \o Head1(j, s))]

XorTok(t, v) == IF v = 0 THEN t ELSE [t EXCEPT !.v = BitXor(@, v)]

SpDecrypt(s, cipher) ==
  LET first == cipher[1]
      keyed == first.k = "enc" /\ first.i = 1 /\ Tail(first.s) = s
  IN [j \in 1..Len(cipher) |->
        IF keyed /\ cipher[j].k = "enc" /\ cipher[j].i = j
        THEN XorTok(cipher[j].s[1], cipher[j].v)
        ELSE Tok("dec", 0, j, <<cipher[j]>> \o Head1(j, s))]

(* ------------------------------------------------------------------ *)
(* sizeof context                                                     *)
(* ------------------------------------------------------------------ *)
SizeofCtx == [size |-> 0, err |-> ""]

SAdd(c, n) == IF c.err # "" THEN c ELSE [c EXCEPT !.size = @ + n]

SAbsorb(c, n) == SAdd(c, n)

SAbsorbExt(c, n) == SAdd(c, 0)

SMask(c, n) == SAdd(c, n)

SSkip(c, n) == SAdd(c, n)

SSkipSize(c, n) == SAdd(c, 1 + SizeBytes(n))

SAbsorbSize(c, n) == SAdd(c, 1 + SizeBytes(n))

SCommit(c) == SAdd(c, 0)

SSqueeze(c, n) == SAdd(c, n)

SSqueezeExt(c, n) == SAdd(c, 0)

(* ------------------------------------------------------------------ *)
(* wrap context                                                       *)
(* ------------------------------------------------------------------ *)
(* sp: sponge, out: bytes written, cap: size of the output buffer,        *)
(* fork: sponges saved by the enclosing forks, loc: the script's local,   *)
(* offs: stream offset after each keyload entry.                          *)
WrapCtx(sp, cap) ==
  [sp |-> sp, out |-> <<>>, cap |-> cap, err |-> "", fork |-> <<>>, loc |-> <<>>,
   offs |-> <<>>]

wrapn(c, bytes) ==
  IF c.err # "" THEN c
  ELSE IF Len(c.out) + Len(bytes) > c.cap THEN [c EXCEPT !.err = "StreamExhausted"]
  ELSE [c EXCEPT !.out = @ \o bytes]

(* A faulty skip that absorbs what it writes. *)
WSkipAbsorbed(c, bytes) ==
  IF wrapn(c, bytes).err # "" THEN wrapn(c, bytes)
  ELSE [wrapn(c, bytes) EXCEPT !.sp = SpAbsorb(@, bytes)]

WSkip(c, bytes) == wrapn(c, bytes)

WSkipSize(c, n) == wrapn(c, SizeEnc(n))

(* skip(&Bytes): skip(Size(len)), then the bytes. *)
WSkipBytes(c, bytes) == wrapn(WSkipSize(c, Len(bytes)), bytes)

WAbsorbExt(c, bytes) == IF c.err # "" THEN c ELSE [c EXCEPT !.sp = SpAbsorb(@, bytes)]

WAbsorb(c, bytes) == WAbsorbExt(wrapn(c, bytes), bytes)

WAbsorbSize(c, n) == WAbsorb(c, SizeEnc(n))

WMask(c, bytes) == WAbsorbExt(wrapn(c, SpEncrypt(c.sp, bytes)), bytes)

WCommit(c) == IF c.err # "" THEN c ELSE [c EXCEPT !.sp = SpCommit(@)]

WSqueezeExt(c, n) == IF c.err # "" THEN c ELSE [c EXCEPT !.sp = SpAfterSqueeze(@, n)]

WSqueeze(c, n) == WSqueezeExt(wrapn(c, SpSqueeze(c.sp, n)), n)

(* ------------------------------------------------------------------ *)
(* unwrap context                                                     *)
(* ------------------------------------------------------------------ *)
(* in: the stream, pos: bytes consumed, val: the value the last command   *)
(* produced, num: the last Size decoded, id: the last Identifier decoded, *)
(* self: the content being filled, loc: the script's locals.              *)
UnwrapCtx(sp, input, self, loc) ==
  [sp |-> sp, in |-> input, pos |-> 0, val |-> <<>>, err |-> "", fork |-> <<>>,
   num |-> 0, id |-> [tag |-> 0, bytes |-> <<>>], self |-> self, loc |-> loc]

Fail(c, e) == IF c.err # "" THEN c ELSE [c EXCEPT !.err = e]

unwrapn(c, n) ==
  IF c.err # "" THEN c
  ELSE IF c.pos + n > Len(c.in) THEN [c EXCEPT !.err = "StreamExhausted"]
  ELSE [c EXCEPT !.val = SubSeq(c.in, c.pos + 1, c.pos + n), !.pos = @ + n]

USkip(c, n) == unwrapn(c, n)

UDrop(c, n) == unwrapn(c, n)

UAbsorbExt(c, bytes) == IF c.err # "" THEN c ELSE [c EXCEPT !.sp = SpAbsorb(@, bytes)]

UAbsorb(c, n) == UAbsorbExt(unwrapn(c, n), unwrapn(c, n).val)

UMaskRead(d, plain) ==
  IF d.err # "" THEN d ELSE [d EXCEPT !.sp = SpAbsorb(@, plain), !.val = plain]

UMask(c, n) == UMaskRead(unwrapn(c, n), SpDecrypt(c.sp, unwrapn(c, n).val))

UCommit(c) == IF c.err # "" THEN c ELSE [c EXCEPT !.sp = SpCommit(@)]

UGuard(c, cond, e) == IF c.err # "" \/ cond THEN c ELSE [c EXCEPT !.err = e]

USqueezeRead(d, n) ==
  IF d.err # "" THEN d
  ELSE IF d.val # SpSqueeze(d.sp, n) THEN [d EXCEPT !.err = "MacMismatch"]
  ELSE [d EXCEPT !.sp = SpAfterSqueeze(@, n)]

USqueeze(c, n) == USqueezeRead(unwrapn(c, n), n)

USqueezeExt(c, n) ==
  IF c.err # "" THEN c ELSE [c EXCEPT !.val = SpSqueeze(c.sp, n), !.sp = SpAfterSqueeze(@, n)]

(* Size: one byte d giving the number of significant bytes, then d        *)
(* big-endian bytes.  num is the decoded number, -1 when a byte of it is  *)
(* pseudo-random (an unknown, astronomically large number).               *)
SizeLength(h) ==
  IF h.err # "" THEN h
  ELSE IF ~IsLit(h.val[1]) \/ h.val[1].v > 8 THEN Fail(h, "GuardFailed")
  ELSE [h EXCEPT !.num = h.val[1].v]

SizeNumber(b) ==
  IF b.err # "" THEN b
  ELSE [b EXCEPT !.num = IF AllLit(b.val) THEN BeValue(b.val) ELSE -1]

USkipSizeBody(h) == IF h.err # "" THEN h ELSE SizeNumber(USkip(h, h.num))

USkipSize(c) == USkipSizeBody(SizeLength(USkip(c, 1)))

UAbsorbSizeBody(h) == IF h.err # "" THEN h ELSE SizeNumber(UAbsorb(h, h.num))

UAbsorbSize(c) == UAbsorbSizeBody(SizeLength(UAbsorb(c, 1)))

(* fork(body): the body runs on a clone of the sponge over the same       *)
(* stream; after it the caller's sponge is the one before the fork.       *)
ForkEnter(c) == IF c.err # "" THEN c ELSE [c EXCEPT !.fork = <<c.sp>> \o @]

ForkExit(c) == IF c.err # "" THEN c ELSE [c EXCEPT !.sp = Head(c.fork), !.fork = Tail(@)]

(* ------------------------------------------------------------------ *)
(* Identifier, Topic, MsgId                                           *)
(* ------------------------------------------------------------------ *)
EdPubKey(n) == [tag |-> 0, bytes |-> Lits(PublicKeySize, n)]

PskId(n) == [tag |-> 1, bytes |-> Lits(PskIdSize, n)]

IdentifierDefault == EdPubKey(0)

IdLen(tag) == IF tag = 0 THEN PublicKeySize ELSE PskIdSize

SMaskIdentifier(c, id) == SMask(SMask(c, 1), Len(id.bytes))

WMaskIdentifier(c, id) == WMask(WMask(c, <<Lit(id.tag)>>), id.bytes)

IdentifierOf(b, tag) ==
  IF b.err # "" THEN b ELSE [b EXCEPT !.id = [tag |-> tag, bytes |-> b.val]]

IdentifierVariant(t) ==
  IF t.err # "" THEN t
  ELSE IF t.val[1] \notin {Lit(0), Lit(1)} THEN Fail(t, "UnknownVariant")
  ELSE IdentifierOf(UMask(t, IdLen(t.val[1].v)), t.val[1].v)

UMaskIdentifier(c) == IdentifierVariant(UMask(c, 1))

TopicHashOf(topic) == SpSqueeze(SpAbsorb(<<>>, topic), TopicHashSize)

MsgId(n) == Lits(MsgIdSize, n)

MaybeBytes(m) == IF m = <<>> THEN <<Lit(0)>> ELSE <<Lit(1)>> \o m

(* Option<MsgId>: the value read is left in val, <<>> for None. *)
MaybeVariant(t) ==
  IF t.err # "" THEN t
  ELSE IF t.val[1] = Lit(0) THEN [t EXCEPT !.val = <<>>]
  ELSE IF t.val[1] = Lit(1) THEN UAbsorb(t, MsgIdSize)
  ELSE Fail(t, "UnknownVariant")

UAbsorbMaybe(c) == MaybeVariant(UAbsorb(c, 1))

(* ------------------------------------------------------------------ *)
(* Identity                                                           *)
(* ------------------------------------------------------------------ *)
SecretKeyLength == 32

DidUriSize == 4

(* The bytes of the Ed25519 secret key number n, and the key of bytes;    *)
(* bytes that are no key's serialisation are the key -1 of nobody.        *)
SecretKeyBytes(n) == [j \in 1..SecretKeyLength |-> Tok("edsk", n, j, <<>>)]

SecretKeyFromBytes(bs) ==
  IF bs[1].k = "edsk" /\ bs = SecretKeyBytes(bs[1].v) THEN bs[1].v ELSE -1

Ed25519Kind(sk) == [kind |-> "Ed25519", sk |-> sk, did |-> <<>>]

(* A DID with its URI bytes and the secret key of its verification method. *)
DIDKind(d) == [kind |-> "DID", sk |-> 20 + d, did |-> Lits(DidUriSize, d)]

IdentityKind_default == Ed25519Kind(0)

DidIdentifier(uri) == [tag |-> 2, bytes |-> uri]

to_identifier(identitykind) ==
  IF identitykind.kind = "Ed25519"
  THEN EdPubKey(identitykind.sk)
  ELSE DidIdentifier(identitykind.did)

(* A faulty constructor that leaves the identifier at its default. *)
Identity_new_stale(identitykind) ==
  [identitykind |-> identitykind, identifier |-> IdentifierDefault]

Identity_new(identitykind) ==
  [identitykind |-> identitykind, identifier |-> to_identifier(identitykind)]

Identity_default == Identity_new(IdentityKind_default)

Identity_from_IdentityKind(identitykind) == Identity_new(identitykind)

Identity_from_Ed25519(sk) == Identity_new(Ed25519Kind(sk))

Identity_from_DID(d) == Identity_new(DIDKind(d))

SMaskDid(c) == SMask(SMask(c, DidUriSize), SecretKeyLength)

WMaskDid(c, k) == WMask(WMask(c, k.did), SecretKeyBytes(k.sk))

SMaskIdentity(c, id) ==
  IF id.identitykind.kind = "Ed25519"
  THEN SMask(SMask(c, 1), SecretKeyLength)
  ELSE SMaskDid(SMask(c, 1))

WMaskIdentity(c, id) ==
  IF id.identitykind.kind = "Ed25519"
  THEN WMask(WMask(c, <<Lit(0)>>), SecretKeyBytes(id.identitykind.sk))
  ELSE WMaskDid(WMask(c, <<Lit(1)>>), id.identitykind)

IdentityOf(k, identitykind) ==
  IF k.err # "" THEN k ELSE [k EXCEPT !.self = Identity_new(identitykind)]

UMaskDidKey(u, uri) ==
  IF u.err # "" THEN u
  ELSE IdentityOf(u, [kind |-> "DID", sk |-> SecretKeyFromBytes(u.val), did |-> uri])

UMaskDidUri(u) == IF u.err # "" THEN u ELSE UMaskDidKey(UMask(u, SecretKeyLength), u.val)

UMaskEd25519Key(u) ==
  IF u.err # "" THEN u ELSE IdentityOf(u, Ed25519Kind(SecretKeyFromBytes(u.val)))

IdentityVariant(t) ==
  IF t.err # "" THEN t
  ELSE IF t.val[1] = Lit(0) THEN UMaskEd25519Key(UMask(t, SecretKeyLength))
  ELSE IF t.val[1] = Lit(1) THEN UMaskDidUri(UMask(t, DidUriSize))
  ELSE Fail(t, "UnknownVariant")

UMaskIdentity(c) == IdentityVariant(UMask(c, 1))

(* ------------------------------------------------------------------ *)
(* HDF                                                                *)
(* ------------------------------------------------------------------ *)
HDF_default ==
  [encoding |-> UTF8, version |-> STREAMS_1_VER, message_type |-> 0,
   payload_length |-> 0, frame_type |-> HDF_ID, payload_frame_count |-> 0,
   linked_msg_address |-> <<>>, sequence |-> 0,
   publisher |-> IdentifierDefault, topic_hash |-> Lits(TopicHashSize, 0)]

HDF_new(message_type, sequence, publisher, topic) ==
  IF Shr(message_type, 4) # 0
  THEN [err |-> "invalid content-type", hdf |-> HDF_default]
  ELSE [err |-> "",
        hdf |-> [encoding |-> UTF8, version |-> STREAMS_1_VER,
                 message_type |-> message_type, payload_length |-> 0,
                 frame_type |-> HDF_ID, payload_frame_count |-> 0,
                 linked_msg_address |-> <<>>, sequence |-> sequence,
                 publisher |-> publisher, topic_hash |-> TopicHashOf(topic)]]

with_linked_msg_address(h, address) == [h EXCEPT !.linked_msg_address = address]

(* A faulty width test that lets an 11-bit payload length through. *)
with_payload_length_11_bits(h, payload_length) ==
  IF Shr(payload_length, 11) # 0
  THEN [err |-> "invalid payload_length", hdf |-> h]
  ELSE [err |-> "", hdf |-> [h EXCEPT !.payload_length = payload_length]]

with_payload_length(h, payload_length) ==
  IF Shr(payload_length, 10) # 0
  THEN [err |-> "invalid payload_length", hdf |-> h]
  ELSE [err |-> "", hdf |-> [h EXCEPT !.payload_length = payload_length]]

HDF_sizeof(c, h) ==
  LET c1 == SAbsorb(c, 1)
      c2 == SAbsorb(c1, 1)
      c3 == SSkip(c2, 2)
      c4 == SAbsorbExt(c3, 1)
      c5 == SAbsorb(c4, 1)
      c6 == SSkip(c5, 3)
      c7 == SAbsorb(c6, Len(MaybeBytes(h.linked_msg_address)))
      c8 == SMask(c7, TopicHashSize)
      c9 == SMaskIdentifier(c8, h.publisher)
      c10 == SSkipSize(c9, h.sequence)
      c11 == SCommit(c10)
  IN SSqueeze(c11, MacSize)

(* A faulty packing that keeps one high bit of the payload length. *)
WrapTypeAndLengthOneBit(h) ==
  <<Lit(BitOr(Shl8(h.message_type, 4), BitAnd(U8(Shr(h.payload_length, 8)), 1))),
    Lit(U8(h.payload_length))>>

WrapTypeAndLength(h) ==
  <<Lit(BitOr(Shl8(h.message_type, 4), BitAnd(U8(Shr(h.payload_length, 8)), 3))),
    Lit(U8(h.payload_length))>>

WrapFrameCount(h) ==
  <<Lit(BitAnd(BeBytes(h.payload_frame_count, 4)[2].v, 63)),
    BeBytes(h.payload_frame_count, 4)[3],
    BeBytes(h.payload_frame_count, 4)[4]>>

HDF_wrap(c, h) ==
  LET c1 == WAbsorb(c, <<Lit(h.encoding)>>)
      c2 == WAbsorb(c1, <<Lit(h.version)>>)
      c3 == WSkip(c2, WrapTypeAndLength(h))
      c4 == WAbsorbExt(c3, <<Lit(Shl8(h.message_type, 4))>>)
      c5 == WAbsorb(c4, <<Lit(h.frame_type)>>)
      c6 == WSkip(c5, WrapFrameCount(h))
      c7 == WAbsorb(c6, MaybeBytes(h.linked_msg_address))
      c8 == WMask(c7, h.topic_hash)
      c9 == WMaskIdentifier(c8, h.publisher)
      c10 == WSkipSize(c9, h.sequence)
      c11 == WCommit(c10)
  IN WSqueeze(c11, MacSize)

ByteVal(t) == IF IsLit(t) THEN t.v ELSE -1

(* The locals of HDF::unwrap: the values read before the MAC is checked. *)
HdfLocals ==
  [encoding |-> 0, version |-> 0, message_type_and_payload_length |-> <<Lit(0), Lit(0)>>,
   frame_type |-> 0, payload_frame_count_bytes |-> <<Lit(0), Lit(0), Lit(0)>>, seq_num |-> 0]

(* A faulty step that writes the encoding into the caller's HDF as it  *)
(* is read.                                                              *)
UnwrapEncodingIntoHdf(c) ==
  IF c.err # "" THEN c
  ELSE [c EXCEPT !.loc.encoding = ByteVal(c.val[1]), !.self.encoding = ByteVal(c.val[1])]

UnwrapEncoding(c) == IF c.err # "" THEN c ELSE [c EXCEPT !.loc.encoding = ByteVal(c.val[1])]

(* A faulty step that records the version without the guard. *)
UnwrapVersionUnguarded(c) ==
  IF c.err # "" THEN c ELSE [c EXCEPT !.loc.version = ByteVal(c.val[1])]

UnwrapVersion(c) ==
  IF c.err # "" THEN c
  ELSE UGuard([c EXCEPT !.loc.version = ByteVal(c.val[1])],
              ByteVal(c.val[1]) = STREAMS_1_VER, "VersionMismatch")

(* A faulty guard that tests only one of the two reserved bits. *)
TypeLengthGuardOneBit(b0) == 0 = BitAnd(b0, 8)

TypeLengthGuard(b0) == 0 = BitAnd(b0, 12)

(* A faulty step that absorbs byte 0 whole, payload-length bits included. *)
UnwrapTypeAndLengthWholeByte(c) ==
  IF c.err # "" THEN c
  ELSE UAbsorbExt(UGuard([c EXCEPT !.loc.message_type_and_payload_length = c.val],
                         TypeLengthGuard(ByteVal(c.val[1])), "ReservedBitsSet"),
                  <<Lit(ByteVal(c.val[1]))>>)

UnwrapTypeAndLength(c) ==
  IF c.err # "" THEN c
  ELSE UAbsorbExt(UGuard([c EXCEPT !.loc.message_type_and_payload_length = c.val],
                         TypeLengthGuard(ByteVal(c.val[1])), "ReservedBitsSet"),
                  <<Lit(BitAnd(ByteVal(c.val[1]), 240))>>)

UnwrapFrameType(c) ==
  IF c.err # "" THEN c
  ELSE UGuard([c EXCEPT !.loc.frame_type = ByteVal(c.val[1])],
              ByteVal(c.val[1]) = HDF_ID, "FrameTypeMismatch")

FrameCountGuard(b0) == 0 = BitAnd(b0, 12)

UnwrapFrameCount(c) ==
  IF c.err # "" THEN c
  ELSE UGuard([c EXCEPT !.loc.payload_frame_count_bytes = c.val],
              FrameCountGuard(ByteVal(c.val[1])), "ReservedBitsSet")

UnwrapLinkedMsgAddress(c) ==
  IF c.err # "" THEN c ELSE [c EXCEPT !.self.linked_msg_address = c.val]

UnwrapTopicHash(c) == IF c.err # "" THEN c ELSE [c EXCEPT !.self.topic_hash = c.val]

UnwrapPublisher(c) == IF c.err # "" THEN c ELSE [c EXCEPT !.self.publisher = c.id]

UnwrapSequence(c) == IF c.err # "" THEN c ELSE [c EXCEPT !.loc.seq_num = c.num]

(* A faulty decoding that takes the message type from the low nibble. *)
UnwrapFieldsLowNibble(c) ==
  IF c.err # "" THEN c
  ELSE [c EXCEPT
          !.self.encoding = c.loc.encoding,
          !.self.version = c.loc.version,
          !.self.message_type = BitAnd(ByteVal(c.loc.message_type_and_payload_length[1]), 15),
          !.self.payload_length =
             BitOr(Shl16(BitAnd(ByteVal(c.loc.message_type_and_payload_length[1]), 3), 8),
                   ByteVal(c.loc.message_type_and_payload_length[2])),
          !.self.frame_type = c.loc.frame_type,
          !.self.payload_frame_count = BeValue(<<Lit(0)>> \o c.loc.payload_frame_count_bytes),
          !.self.sequence = c.loc.seq_num]

UnwrapFields(c) ==
  IF c.err # "" THEN c
  ELSE [c EXCEPT
          !.self.encoding = c.loc.encoding,
          !.self.version = c.loc.version,
          !.self.message_type = Shr(ByteVal(c.loc.message_type_and_payload_length[1]), 4),
          !.self.payload_length =
             BitOr(Shl16(BitAnd(ByteVal(c.loc.message_type_and_payload_length[1]), 3), 8),
                   ByteVal(c.loc.message_type_and_payload_length[2])),
          !.self.frame_type = c.loc.frame_type,
          !.self.payload_frame_count = BeValue(<<Lit(0)>> \o c.loc.payload_frame_count_bytes),
          !.self.sequence = c.loc.seq_num]

HDF_unwrap(c) ==
  LET c1 == UnwrapEncoding(UAbsorb(c, 1))
      c2 == UnwrapVersion(UAbsorb(c1, 1))
      c3 == UnwrapTypeAndLength(USkip(c2, 2))
      c4 == UnwrapFrameType(UAbsorb(c3, 1))
      c5 == UnwrapFrameCount(USkip(c4, 3))
      c6 == UnwrapLinkedMsgAddress(UAbsorbMaybe(c5))
      c7 == UnwrapTopicHash(UMask(c6, TopicHashSize))
      c8 == UnwrapPublisher(UMaskIdentifier(c7))
      c9 == UnwrapSequence(USkipSize(c8))
      c10 == USqueeze(UCommit(c9), MacSize)
  IN UnwrapFields(c10)

(* ------------------------------------------------------------------ *)
(* join, x25519, ed25519                                              *)
(* ------------------------------------------------------------------ *)
JoinState(stored, link) == SpAbsorb(stored, link)

SJoin(c) == SSkip(c, MsgIdSize)

JoinLink(d, store, link) ==
  IF d.err # "" THEN d
  ELSE IF link \notin DOMAIN store THEN Fail(d, "LinkNotFound")
  ELSE [d EXCEPT !.sp = JoinState(store[link], link)]

WJoin(c, store, link) == JoinLink(WSkip(c, link), store, link)

UJoin(c, store) == JoinLink(USkip(c, MsgIdSize), store, USkip(c, MsgIdSize).val)

XPublicKey(sk) == [j \in 1..PublicKeySize |-> Tok("xpk", 0, j, Head1(j, <<Lit(sk)>>))]

IsXPublicKey(pk) ==
  /\ Len(pk) = PublicKeySize
  /\ pk[1].k = "xpk"
  /\ pk[1].s # <<>>
  /\ pk = XPublicKey(pk[1].s[1].v)

Lesser(a, b) == IF a < b THEN a ELSE b

Greater(a, b) == IF a < b THEN b ELSE a

diffie_hellman(sk, pk) ==
  IF IsXPublicKey(pk)
  THEN Tok("dh", Lesser(sk, pk[1].s[1].v), Greater(sk, pk[1].s[1].v), <<>>)
  ELSE Tok("dhx", sk, 0, pk)

EphemeralSecret(c) == 100 + Len(c.out)

Sx25519(c, n) == SMask(SCommit(SAbsorbExt(SAbsorb(c, PublicKeySize), PublicKeySize)), n)

Wx25519(c, pk, key) ==
  IF c.err # "" THEN c
  ELSE IF Len(pk) # PublicKeySize THEN Fail(c, "GuardFailed")
  ELSE WMask(WCommit(WAbsorbExt(WAbsorb(c, XPublicKey(EphemeralSecret(c))),
                                <<diffie_hellman(EphemeralSecret(c), pk)>>)),
             key)

x25519_shared(c, sk, pk) ==
  IF c.err # "" THEN c ELSE [c EXCEPT !.sp = SpAbsorb(@, <<diffie_hellman(sk, pk)>>)]

x25519_ephemeral(c, sk) == IF c.err # "" THEN c ELSE x25519_shared(c, sk, c.val)

(* A faulty x25519 that masks the key without the commit. *)
x25519_key_uncommitted(c, sk, n) ==
  UMask(x25519_ephemeral(UAbsorb(c, PublicKeySize), sk), n)

(* A faulty x25519 that unmasks the key before it absorbs the shared    *)
(* secret.                                                              *)
x25519_key_unmasked_first(c, sk, n) ==
  x25519_shared(UMask(UCommit(UAbsorb(c, PublicKeySize)), n), sk,
                UAbsorb(c, PublicKeySize).val)

x25519_key(c, sk, n) == UMask(UCommit(x25519_ephemeral(UAbsorb(c, PublicKeySize), sk)), n)

Signature(kp, s) ==
  [j \in 1..SignatureSize |-> Tok("sig", 0, j, Head1(j, <<Lit(kp)>> \o SpCommit(s)))]

SEd25519(c) == SAdd(SSqueezeExt(c, HashSize), SignatureSize)

WEd25519(c, kp) == WSqueezeExt(wrapn(c, Signature(kp, c.sp)), HashSize)

VerifySignature(d, pk, s) ==
  IF d.err # "" THEN d
  ELSE IF d.val # Signature(pk, s) THEN [d EXCEPT !.err = "SignatureInvalid"]
  ELSE [d EXCEPT !.sp = SpAfterSqueeze(@, HashSize)]

UEd25519(c, pk) == VerifySignature(unwrapn(c, SignatureSize), pk, c.sp)

(* ------------------------------------------------------------------ *)
(* Keyload                                                            *)
(* ------------------------------------------------------------------ *)
IsPskId(id) == id.tag = 1

(* A faulty count that leaves out the X25519 ephemeral public key. *)
SizeofEntryNoEphemeral(c, item) ==
  SMask(SCommit(SAbsorbExt(SMaskIdentifier(c, item.id), PskSize)), KeySize)

(* The X25519 branch converts store_id to a 32-byte array first and    *)
(* fails when it has another length.                                    *)
SizeofEntry(c, item) ==
  IF IsPskId(item.id)
  THEN SMask(SCommit(SAbsorbExt(SMaskIdentifier(c, item.id), PskSize)), KeySize)
  ELSE IF Len(item.store_id) # PublicKeySize
  THEN Fail(SMaskIdentifier(c, item.id), "TryFromSliceError")
  ELSE Sx25519(SMaskIdentifier(c, item.id), KeySize)

(* repeated(values, value_handle) with the entry script as the handle:    *)
(* a fold over the values that stops calling the handle after an error.   *)
(* A faulty repeated that calls the handle for every item and returns  *)
(* the last result.                                                     *)
repeated_sizeof_every_item(ctx, values) ==
  LET step(rctx, item) == SizeofEntry([rctx EXCEPT !.err = ""], item)
      fold[k \in 0..Len(values)] == IF k = 0 THEN ctx ELSE step(fold[k - 1], values[k])
  IN fold[Len(values)]

repeated_sizeof(ctx, values) ==
  LET step(rctx, item) == IF rctx.err = "" THEN SizeofEntry(rctx, item) ELSE rctx
      fold[k \in 0..Len(values)] == IF k = 0 THEN ctx ELSE step(fold[k - 1], values[k])
  IN fold[Len(values)]

Keyload_sizeof(c, content) ==
  LET c1 == SJoin(c)
      c2 == SAbsorb(c1, NonceSize)
      f1 == SAbsorbSize(c2, Len(content.keys))
      f2 == repeated_sizeof(f1, content.keys)
      c3 == SAbsorbExt(f2, KeySize)
      c4 == SEd25519(c3)
  IN SCommit(c4)

WrapBranch(c, item, key) ==
  IF IsPskId(item.id)
  THEN WMask(WCommit(WAbsorbExt(c, item.store_id)), key)
  ELSE Wx25519(c, item.store_id, key)

EntryWrapped(c) == IF c.err # "" THEN c ELSE [c EXCEPT !.offs = Append(@, Len(c.out))]

WrapIdHash(c) ==
  IF c.err # "" THEN c
  ELSE [WSqueezeExt(c, HashSize) EXCEPT !.loc = SpSqueeze(c.sp, HashSize)]

WAbsorbIdHash(c) == IF c.err # "" THEN c ELSE WAbsorbExt(c, c.loc)

WrapEntry(c, item, key) ==
  EntryWrapped(ForkExit(WrapBranch(ForkEnter(WMaskIdentifier(c, item.id)), item, key)))

repeated_wrap(ctx, values, key) ==
  LET step(rctx, item) == IF rctx.err = "" THEN WrapEntry(rctx, item, key) ELSE rctx
      fold[k \in 0..Len(values)] == IF k = 0 THEN ctx ELSE step(fold[k - 1], values[k])
  IN fold[Len(values)]

(* A faulty script that signs on the context itself, not in a fork. *)
Keyload_wrap_unforked(c, content, store) ==
  LET c1 == WJoin(c, store, content.link)
      c2 == WAbsorb(c1, content.nonce)
      f1 == WAbsorbSize(ForkEnter(c2), Len(content.keys))
      f2 == repeated_wrap(f1, content.keys, content.key)
      f3 == WrapIdHash(WCommit(f2))
      c3 == WAbsorbExt(ForkExit(f3), content.key)
      g1 == WEd25519(WAbsorbIdHash(c3), content.sig_kp)
  IN WCommit(g1)

Keyload_wrap(c, content, store) ==
  LET c1 == WJoin(c, store, content.link)
      c2 == WAbsorb(c1, content.nonce)
      f1 == WAbsorbSize(ForkEnter(c2), Len(content.keys))
      f2 == repeated_wrap(f1, content.keys, content.key)
      f3 == WrapIdHash(WCommit(f2))
      c3 == WAbsorbExt(ForkExit(f3), content.key)
      g1 == WEd25519(WAbsorbIdHash(ForkEnter(c3)), content.sig_kp)
  IN WCommit(ForkExit(g1))

ContentUnwrap_new(psk_store, ke_sk_store, sig_pk) ==
  [link |-> Lits(MsgIdSize, 0), nonce |-> Lits(NonceSize, 0),
   psk_store |-> psk_store, ke_sk_store |-> ke_sk_store,
   ke_pk |-> Lits(PublicKeySize, 0), key_ids |-> <<>>, key |-> <<>>,
   sig_pk |-> sig_pk, offs |-> <<>>]

(* A faulty drop length for the PSK dead branch. *)
PskDeadBranchShort == PskIdSize

PskDeadBranch == KeySize

(* A faulty live branch that records the identifier but not the key. *)
PskKeyUnset(k) ==
  IF k.err # "" THEN k ELSE [k EXCEPT !.self.key_ids = Append(@, k.id)]

PskKey(k) ==
  IF k.err # "" THEN k
  ELSE [k EXCEPT !.self.key = k.val, !.self.key_ids = Append(@, k.id)]

(* A faulty PSK branch that fails when the PSK is not in the store. *)
UnwrapPskBranchStrict(b) ==
  IF b.id \in DOMAIN b.self.psk_store
  THEN PskKey(UMask(UCommit(UAbsorbExt(b, b.self.psk_store[b.id])), KeySize))
  ELSE Fail(b, "KeyNotFound")

UnwrapPskBranch(b) ==
  IF b.id \in DOMAIN b.self.psk_store
  THEN PskKey(UMask(UCommit(UAbsorbExt(b, b.self.psk_store[b.id])), KeySize))
  ELSE UDrop([b EXCEPT !.self.key_ids = Append(@, b.id)], PskDeadBranch)

EdKey(k) ==
  IF k.err # "" THEN k
  ELSE [k EXCEPT !.self.key = k.val, !.self.ke_pk = k.id.bytes,
                 !.self.key_ids = Append(@, k.id)]

(* A faulty X25519 branch that forgets the identifier of a dead branch. *)
UnwrapEdBranchForgetful(b) ==
  IF b.id \in DOMAIN b.self.ke_sk_store
  THEN EdKey(x25519_key(b, b.self.ke_sk_store[b.id], KeySize))
  ELSE UDrop(b, EdDeadBranch)

UnwrapEdBranch(b) ==
  IF b.id \in DOMAIN b.self.ke_sk_store
  THEN EdKey(x25519_key(b, b.self.ke_sk_store[b.id], KeySize))
  ELSE UDrop([b EXCEPT !.self.key_ids = Append(@, b.id)], EdDeadBranch)

UnwrapBranch(b) ==
  IF b.err # "" THEN b
  ELSE IF IsPskId(b.id) THEN UnwrapPskBranch(b) ELSE UnwrapEdBranch(b)

EntryUnwrapped(c) == IF c.err # "" THEN c ELSE [c EXCEPT !.self.offs = Append(@, c.pos)]

UnwrapEntry(c) ==
  EntryUnwrapped(ForkExit(UnwrapBranch(ForkEnter(UMaskIdentifier(c)))))

(* repeated(n, body) with the count in num; a count read from             *)
(* pseudo-random bytes runs the body until the stream is exhausted.       *)
repeated_unwrap(ctx) ==
  LET step(rctx) == IF rctx.err = "" THEN UnwrapEntry(rctx) ELSE rctx
      fold[k \in 0..ctx.num] == IF k = 0 THEN ctx ELSE step(fold[k - 1])
  IN IF ctx.err # "" THEN ctx
     ELSE IF ctx.num < 0 THEN Fail(ctx, "StreamExhausted")
     ELSE fold[ctx.num]

UnwrapLink(c) == IF c.err # "" THEN c ELSE [c EXCEPT !.self.link = c.val]

UnwrapNonce(c) == IF c.err # "" THEN c ELSE [c EXCEPT !.self.nonce = c.val]

UnwrapIdHash(c) == IF c.err # "" THEN c ELSE [c EXCEPT !.loc = c.val]

UAbsorbIdHash(c) == IF c.err # "" THEN c ELSE UAbsorbExt(c, c.loc)

(* A faulty tail that checks the signature whether or not a key was found. *)
UnwrapSignatureAlways(c) ==
  IF c.err # "" THEN c
  ELSE UCommit(ForkExit(UEd25519(UAbsorbIdHash(ForkEnter(UAbsorbExt(c, c.self.key))),
                                 c.self.sig_pk)))

(* A faulty tail that reads the signature without verifying it. *)
UnwrapSignatureUnverified(c) ==
  IF c.err # "" THEN c
  ELSE IF c.self.key # <<>>
  THEN UCommit(ForkExit(UDrop(UAbsorbIdHash(ForkEnter(UAbsorbExt(c, c.self.key))),
                              SignatureSize)))
  ELSE c

UnwrapSignature(c) ==
  IF c.err # "" THEN c
  ELSE IF c.self.key # <<>>
  THEN UCommit(ForkExit(UEd25519(UAbsorbIdHash(ForkEnter(UAbsorbExt(c, c.self.key))),
                                 c.self.sig_pk)))
  ELSE c

Keyload_unwrap(c, store) ==
  LET c1 == UnwrapLink(UJoin(c, store))
      c2 == UnwrapNonce(UAbsorb(c1, NonceSize))
      f1 == UAbsorbSize(ForkEnter(c2))
      f2 == repeated_unwrap(f1)
      f3 == UnwrapIdHash(USqueezeExt(UCommit(f2), HashSize))
  IN UnwrapSignature(ForkExit(f3))

(* ------------------------------------------------------------------ *)
(* UnwrappedMessage and the link store                                *)
(* ------------------------------------------------------------------ *)
(* The address of the message that joins the given link. *)
MsgAddress(link) == MsgId(link[1].v + 1)

UnwrappedMessage(link, content, spongos) ==
  [link |-> link, content |-> content, spongos |-> spongos]

(* LinkStore::update: the entry of rel becomes spongos, or the store      *)
(* refuses and stays as it is.                                            *)
update(store, rel, spongos, ok) ==
  IF ok
  THEN [err |-> "", store |-> [l \in DOMAIN store \cup {rel} |->
                                 IF l = rel THEN spongos ELSE store[l]]]
  ELSE [err |-> "UpdateFailed", store |-> store]

Returned(msg, u) ==
  [err |-> u.err, store |-> u.store, link |-> msg.link,
   content |-> IF u.err = "" THEN <<msg.content>> ELSE <<>>]

(* A faulty commit that stores the sponge as the script left it. *)
UnwrappedMessage_commit_uncommitted(msg, store, ok) ==
  Returned(msg, update(store, msg.link, msg.spongos, ok))

UnwrappedMessage_commit(msg, store, ok) ==
  Returned(msg, update(store, msg.link, SpCommit(msg.spongos), ok))

(* ------------------------------------------------------------------ *)
(* Bounds and input sets                                              *)
(* ------------------------------------------------------------------ *)
MaxSeqBytes == 2

MaxRecipients == 2

MaxCommits == 1

MessageTypes == {0, 3, 15, 16}

PayloadLengths == {0, 1, 256, 767, 1023, 1024}

Sequences == {0} \cup {256 ^ (d - 1) + 44 : d \in 1..MaxSeqBytes}

Publishers == {EdPubKey(7), PskId(9)}

Topics == {<<Lit(116)>>}

MsgIds == {MsgId(5)}

Psk(n) == Lits(PskSize, 16 + n)

(* A pre-shared key other than the one the author holds for PskId(n). *)
StalePsk(n) == Lits(PskSize, 128 + n)

PskRecipient(n) == [id |-> PskId(n), store_id |-> Psk(n)]

EdRecipient(n) == [id |-> EdPubKey(n), store_id |-> XPublicKey(n)]

PskNumbers == {1, 2}

EdNumbers == {3, 4}

Recipients == {PskRecipient(n) : n \in PskNumbers} \cup {EdRecipient(n) : n \in EdNumbers}

(* An X25519 recipient whose stored public key lacks its last byte. *)
ShortEdRecipient(n) ==
  [id |-> EdPubKey(n), store_id |-> SubSeq(XPublicKey(n), 1, PublicKeySize - 1)]

ShortRecipients == {ShortEdRecipient(n) : n \in EdNumbers}

Author == 5

Nonce == Lits(NonceSize, 3)

SessionKey == Lits(KeySize, 4)

AnnounceState == <<Tok("announce", 5, 0, <<>>), CommitTok>>

(* ------------------------------------------------------------------ *)
(* State                                                              *)
(* ------------------------------------------------------------------ *)
VARIABLES pc, osize, wctx, wire, flip, uctx,
          hdf, built, herr, uhdf, args,
          content, store, psk_store, ke_sk_store, kres, kprev, removed,
          identity, uidentity,
          ucommit, serr, oarg

cvars == <<pc, osize, wctx, wire, flip, uctx>>

hvars == <<hdf, built, herr, uhdf, args>>

kvars == <<content, store, psk_store, ke_sk_store, kres, kprev, removed>>

ivars == <<identity, uidentity>>

mvars == <<ucommit, serr, oarg>>

vars == <<cvars, hvars, kvars, ivars, mvars>>

NoFlip == <<0, 0>>

(* The arguments last given to HDF::new and with_payload_length. *)
NoArgs == [message_type |-> 0, payload_length |-> 0]

NotCommitted == [err |-> "", link |-> <<>>, content |-> <<>>]

(* What is kept of a context once its script has run. *)
(* The output stream handed to a wrap that is not sized by sizeof: its *)
(* capacity, and the Bytes value skipped into it.                       *)
NoStream == [cap |-> 0, bytes |-> <<>>]

WrapDone(c) == [sp |-> c.sp, len |-> Len(c.out), err |-> c.err, offs |-> c.offs]

UnwrapDone(c) == [sp |-> c.sp, pos |-> c.pos, err |-> c.err]

EmptyStore == [x \in {} |-> <<>>]

ContentWrap_default ==
  [link |-> MsgId(0), nonce |-> Nonce, key |-> SessionKey, keys |-> <<>>, sig_kp |-> Author]

Outcome(self, err) == [key |-> self.key, key_ids |-> self.key_ids, err |-> err]

Init ==
  /\ pc = "start"
  /\ osize = 0
  /\ wctx = WrapDone(WrapCtx(<<>>, 0))
  /\ wire = <<>>
  /\ flip = NoFlip
  /\ uctx = UnwrapDone(UnwrapCtx(<<>>, <<>>, HDF_default, HdfLocals))
  /\ hdf = HDF_default
  /\ built = {}
  /\ herr = ""
  /\ uhdf = HDF_default
  /\ args = NoArgs
  /\ content = ContentWrap_default
  /\ store = [l \in MsgIds |-> AnnounceState]
  /\ psk_store = EmptyStore
  /\ ke_sk_store = EmptyStore
  /\ kres = ContentUnwrap_new(EmptyStore, EmptyStore, Author)
  /\ kprev = Outcome(kres, "")
  /\ removed = {}
  /\ identity = Identity_default
  /\ uidentity = Identity_default
  /\ ucommit = NotCommitted
  /\ serr = ""
  /\ oarg = NoStream

(* ------------------------------ HDF ------------------------------- *)
HdfNew(message_type, sequence, publisher, topic) ==
  /\ pc = "start"
  /\ LET r == HDF_new(message_type, sequence, publisher, topic)
     IN /\ hdf' = r.hdf
        /\ herr' = r.err
        /\ pc' = IF r.err = "" THEN "hdf" ELSE "failed"
  /\ args' = [args EXCEPT !.message_type = message_type]
  /\ UNCHANGED <<osize, wctx, wire, flip, uctx, built, uhdf, kvars, ivars, mvars>>

HdfWithPayloadLength(payload_length) ==
  /\ pc = "hdf"
  /\ "payload_length" \notin built
  /\ LET r == with_payload_length(hdf, payload_length)
     IN /\ hdf' = r.hdf
        /\ herr' = r.err
        /\ pc' = IF r.err = "" THEN "hdf" ELSE "failed"
  /\ built' = built \cup {"payload_length"}
  /\ args' = [args EXCEPT !.payload_length = payload_length]
  /\ UNCHANGED <<osize, wctx, wire, flip, uctx, uhdf, kvars, ivars, mvars>>

HdfWithLinkedMsgAddress(address) ==
  /\ pc = "hdf"
  /\ "linked_msg_address" \notin built
  /\ hdf' = with_linked_msg_address(hdf, address)
  /\ built' = built \cup {"linked_msg_address"}
  /\ UNCHANGED <<cvars, herr, uhdf, args, kvars, ivars, mvars>>

HdfSizeof ==
  /\ pc = "hdf"
  /\ osize' = HDF_sizeof(SizeofCtx, hdf).size
  /\ pc' = "hdf_sized"
  /\ UNCHANGED <<wctx, wire, flip, uctx, hvars, kvars, ivars, mvars>>

HdfWrap ==
  /\ pc = "hdf_sized"
  /\ LET c == HDF_wrap(WrapCtx(<<>>, osize), hdf)
     IN /\ wctx' = WrapDone(c)
        /\ wire' = c.out
  /\ pc' = "hdf_wrapped"
  /\ UNCHANGED <<osize, flip, uctx, hvars, kvars, ivars, mvars>>

(* wrap of the header into an output stream with fewer bytes than     *)
(* sizeof counted.                                                      *)
HdfWrapShort(cap) ==
  /\ pc = "hdf_sized"
  /\ cap < osize
  /\ LET c == HDF_wrap(WrapCtx(<<>>, cap), hdf)
     IN /\ wctx' = WrapDone(c)
        /\ wire' = c.out
  /\ oarg' = [cap |-> cap, bytes |-> <<>>]
  /\ pc' = "hdf_wrap_failed"
  /\ UNCHANGED <<osize, flip, uctx, hvars, kvars, ivars, ucommit, serr>>

(* skip(&Bytes) on the context that wrapped the header, with room bytes *)
(* left in its output stream.                                           *)
SkipBytes(bytes, room) ==
  /\ pc = "hdf_wrapped"
  /\ flip = NoFlip
  /\ LET c == WSkipBytes([WrapCtx(wctx.sp, Len(wire) + room) EXCEPT !.out = wire], bytes)
     IN /\ wctx' = WrapDone(c)
        /\ wire' = c.out
  /\ oarg' = [cap |-> Len(wire) + room, bytes |-> bytes]
  /\ pc' = "hdf_skipped"
  /\ UNCHANGED <<osize, flip, uctx, hvars, kvars, ivars, ucommit, serr>>

HdfUnwrap ==
  /\ pc = "hdf_wrapped"
  /\ LET c == HDF_unwrap(UnwrapCtx(<<>>, wire, HDF_default, HdfLocals))
     IN /\ uctx' = UnwrapDone(c)
        /\ uhdf' = c.self
  /\ pc' = "hdf_unwrapped"
  /\ UNCHANGED <<osize, wctx, wire, flip, hdf, built, herr, args, kvars, ivars, mvars>>

(* unwrap into an HDF the caller already holds. *)
HdfUnwrapInto(caller) ==
  /\ pc = "hdf_wrapped"
  /\ LET c == HDF_unwrap(UnwrapCtx(<<>>, wire, caller, HdfLocals))
     IN /\ uctx' = UnwrapDone(c)
        /\ uhdf' = c.self
  /\ pc' = "hdf_unwrapped_into"
  /\ UNCHANGED <<osize, wctx, wire, flip, hdf, built, herr, args, kvars, ivars, mvars>>

(* ----------------------------- Keyload ---------------------------- *)
StorePsk(n, psk) ==
  /\ pc \in {"start", "k_setup"}
  /\ PskId(n) \notin DOMAIN psk_store
  /\ psk_store' = [i \in DOMAIN psk_store \cup {PskId(n)} |->
                     IF i = PskId(n) THEN psk ELSE psk_store[i]]
  /\ pc' = "k_setup"
  /\ UNCHANGED <<osize, wctx, wire, flip, uctx, hvars,
                 content, store, ke_sk_store, kres, kprev, removed, ivars, mvars>>

StoreKeSk(n) ==
  /\ pc \in {"start", "k_setup"}
  /\ EdPubKey(n) \notin DOMAIN ke_sk_store
  /\ ke_sk_store' = [i \in DOMAIN ke_sk_store \cup {EdPubKey(n)} |->
                       IF i = EdPubKey(n) THEN n ELSE ke_sk_store[i]]
  /\ pc' = "k_setup"
  /\ UNCHANGED <<osize, wctx, wire, flip, uctx, hvars,
                 content, store, psk_store, kres, kprev, removed, ivars, mvars>>

(* A new message: whatever the previous message left in the contexts and *)
(* in the unwrapped content is gone.                                      *)
KeyloadNew(link) ==
  /\ pc \in {"start", "k_setup", "k_committed"}
  /\ content' = [ContentWrap_default EXCEPT !.link = link]
  /\ osize' = 0
  /\ wctx' = WrapDone(WrapCtx(<<>>, 0))
  /\ wire' = <<>>
  /\ uctx' = UnwrapDone(UnwrapCtx(<<>>, <<>>, HDF_default, HdfLocals))
  /\ kres' = ContentUnwrap_new(EmptyStore, EmptyStore, Author)
  /\ kprev' = Outcome(kres', "")
  /\ removed' = {}
  /\ ucommit' = NotCommitted
  /\ serr' = ""
  /\ pc' = "k_build"
  /\ UNCHANGED <<flip, hvars, store, psk_store, ke_sk_store, ivars, oarg>>

AddRecipient(item) ==
  /\ pc = "k_build"
  /\ Len(content.keys) < MaxRecipients
  /\ \A j \in 1..Len(content.keys) : content.keys[j].id # item.id
  /\ content' = [content EXCEPT !.keys = Append(@, item)]
  /\ UNCHANGED <<cvars, hvars, store, psk_store, ke_sk_store, kres, kprev, removed, ivars, mvars>>

(* A sizeof that fails leaves its partial count in the context; the    *)
(* message is then not wrapped.                                         *)
KeyloadSizeof ==
  /\ pc = "k_build"
  /\ LET c == Keyload_sizeof(SizeofCtx, content)
     IN /\ osize' = c.size
        /\ serr' = c.err
        /\ pc' = IF c.err = "" THEN "k_sized" ELSE "k_failed"
  /\ UNCHANGED <<wctx, wire, flip, uctx, hvars, kvars, ivars, ucommit, oarg>>

KeyloadWrap ==
  /\ pc = "k_sized"
  /\ LET c == Keyload_wrap(WrapCtx(<<>>, osize), content, store)
     IN /\ wctx' = WrapDone(c)
        /\ wire' = c.out
  /\ pc' = "k_wrapped"
  /\ UNCHANGED <<osize, flip, uctx, hvars, kvars, ivars, mvars>>

KeyloadUnwrap ==
  /\ pc = "k_wrapped"
  /\ LET self == ContentUnwrap_new(psk_store, ke_sk_store, Author)
         c == Keyload_unwrap(UnwrapCtx(<<>>, wire, self, <<>>), store)
     IN /\ uctx' = UnwrapDone(c)
        /\ kres' = c.self
  /\ pc' = "k_unwrapped"
  /\ UNCHANGED <<osize, wctx, wire, flip, hvars,
                 content, store, psk_store, ke_sk_store, kprev, removed, ivars, mvars>>

Without(f, id) == [i \in DOMAIN f \ {id} |-> f[i]]

RemoveMaterial(id) ==
  /\ pc = "k_unwrapped"
  /\ removed = {}
  /\ flip = NoFlip
  /\ id \in DOMAIN psk_store \cup DOMAIN ke_sk_store
  /\ psk_store' = Without(psk_store, id)
  /\ ke_sk_store' = Without(ke_sk_store, id)
  /\ removed' = {id}
  /\ kprev' = Outcome(kres, uctx.err)
  /\ pc' = "k_wrapped"
  /\ UNCHANGED <<osize, wctx, wire, flip, uctx, hvars, content, store, kres, ivars, mvars>>

(* The unwrapped keyload is committed to the link store under its own    *)
(* address; at most MaxCommits addresses are added to the store.          *)
CommitUnwrapped(ok) ==
  /\ pc = "k_unwrapped"
  /\ uctx.err = ""
  /\ flip = NoFlip
  /\ Cardinality(DOMAIN store \cup {MsgAddress(content.link)})
       <= Cardinality(MsgIds) + MaxCommits
  /\ LET r == UnwrappedMessage_commit(
                 UnwrappedMessage(MsgAddress(content.link), kres, uctx.sp), store, ok)
     IN /\ store' = r.store
        /\ ucommit' = [err |-> r.err, link |-> r.link, content |-> r.content]
  /\ pc' = "k_committed"
  /\ UNCHANGED <<osize, wctx, wire, flip, uctx, hvars,
                 content, psk_store, ke_sk_store, kres, kprev, removed, ivars, serr, oarg>>

(* ----------------------------- Identity --------------------------- *)
IdentityNew(identitykind) ==
  /\ pc = "start"
  /\ identity' = Identity_new(identitykind)
  /\ pc' = "identity"
  /\ UNCHANGED <<osize, wctx, wire, flip, uctx, hvars, kvars, uidentity, mvars>>

IdentityFromKind(identitykind) ==
  /\ pc = "start"
  /\ identity' = Identity_from_IdentityKind(identitykind)
  /\ pc' = "identity"
  /\ UNCHANGED <<osize, wctx, wire, flip, uctx, hvars, kvars, uidentity, mvars>>

IdentityFromEd25519(sk) ==
  /\ pc = "start"
  /\ identity' = Identity_from_Ed25519(sk)
  /\ pc' = "identity"
  /\ UNCHANGED <<osize, wctx, wire, flip, uctx, hvars, kvars, uidentity, mvars>>

IdentityFromDID(d) ==
  /\ pc = "start"
  /\ identity' = Identity_from_DID(d)
  /\ pc' = "identity"
  /\ UNCHANGED <<osize, wctx, wire, flip, uctx, hvars, kvars, uidentity, mvars>>

IdentityDefault ==
  /\ pc = "start"
  /\ identity' = Identity_default
  /\ pc' = "identity"
  /\ UNCHANGED <<osize, wctx, wire, flip, uctx, hvars, kvars, uidentity, mvars>>

IdentityMaskWrap ==
  /\ pc = "identity"
  /\ osize' = SMaskIdentity(SizeofCtx, identity).size
  /\ LET c == WMaskIdentity(WrapCtx(<<>>, osize'), identity)
     IN /\ wctx' = WrapDone(c)
        /\ wire' = c.out
  /\ pc' = "id_wrapped"
  /\ UNCHANGED <<flip, uctx, hvars, kvars, ivars, mvars>>

IdentityMaskUnwrap ==
  /\ pc = "id_wrapped"
  /\ LET c == UMaskIdentity(UnwrapCtx(<<>>, wire, uidentity, <<>>))
     IN /\ uctx' = UnwrapDone(c)
        /\ uidentity' = c.self
  /\ pc' = "id_unwrapped"
  /\ UNCHANGED <<osize, wctx, wire, flip, hvars, kvars, identity, mvars>>

(* The identity is sent again with its kind byte changed on the way. *)
IdentityKindByte(tag) ==
  /\ pc = "id_unwrapped"
  /\ flip = NoFlip
  /\ wire' = [wire EXCEPT ![1] = XorTok(@, tag)]
  /\ flip' = <<1, tag>>
  /\ pc' = "id_wrapped"
  /\ UNCHANGED <<osize, wctx, uctx, hvars, kvars, ivars, mvars>>

(* ------------------------------ wire ------------------------------ *)
FlipBit(t, bit) == [t EXCEPT !.v = BitXor(@, 2 ^ bit)]

Tamper(at, bit) ==
  /\ pc \in {"hdf_wrapped", "k_wrapped"}
  /\ flip = NoFlip
  /\ removed = {}
  /\ wire' = [wire EXCEPT ![at] = FlipBit(@, bit)]
  /\ flip' = <<at, bit>>
  /\ UNCHANGED <<pc, osize, wctx, uctx, hvars, kvars, ivars, mvars>>

HdfBuild ==
  \/ \E mt \in MessageTypes, sq \in Sequences, pb \in Publishers, tp \in Topics :
       HdfNew(mt, sq, pb, tp)
  \/ \E pl \in PayloadLengths : HdfWithPayloadLength(pl)
  \/ \E a \in MsgIds : HdfWithLinkedMsgAddress(a)

HdfRun == HdfSizeof \/ HdfWrap \/ HdfUnwrap

KeyloadSetup ==
  \/ \E n \in PskNumbers : \E psk \in {Psk(n), StalePsk(n)} : StorePsk(n, psk)
  \/ \E n \in EdNumbers : StoreKeSk(n)

KeyloadBuild ==
  \/ \E l \in MsgIds : KeyloadNew(l)
  \/ \E r \in Recipients : AddRecipient(r)

KeyloadRun == KeyloadSizeof \/ KeyloadWrap \/ KeyloadUnwrap

KeyloadRemove == \E id \in DOMAIN psk_store \cup DOMAIN ke_sk_store : RemoveMaterial(id)


IdentityKinds == {Ed25519Kind(0), Ed25519Kind(7), DIDKind(1), DIDKind(2)}

IdentityBuild ==
  \/ \E k \in IdentityKinds : IdentityNew(k)
  \/ \E k \in IdentityKinds : IdentityFromKind(k)
  \/ \E sk \in {7, 8} : IdentityFromEd25519(sk)
  \/ \E d \in {1, 3} : IdentityFromDID(d)
  \/ IdentityDefault

IdentityRun ==
  \/ IdentityMaskWrap
  \/ IdentityMaskUnwrap
  \/ \E tag \in {1, 2} : IdentityKindByte(tag)

Next ==
  \/ HdfBuild \/ HdfRun
  \/ KeyloadSetup \/ KeyloadBuild \/ KeyloadRun \/ KeyloadRemove
  \/ IdentityBuild \/ IdentityRun

Spec == Init /\ [][Next]_vars

(* The same program with one bit of the message flipped in flight, over   *)
(* fewer messages: one header shape, and the keyload of TamperKeys.       *)
TamperAny == \E at \in 1..Len(wire) : \E bit \in 0..7 : Tamper(at, bit)

HdfBuildFew ==
  \/ \E mt \in {3}, sq \in Sequences, pb \in {EdPubKey(7)}, tp \in Topics :
       HdfNew(mt, sq, pb, tp)
  \/ \E pl \in {1023} : HdfWithPayloadLength(pl)
  \/ \E a \in MsgIds : HdfWithLinkedMsgAddress(a)

TamperKeys == <<PskRecipient(1), EdRecipient(3)>>

KeyloadSetupFew ==
  \/ \E psk \in {Psk(1), StalePsk(1)} : StorePsk(1, psk)
  \/ StoreKeSk(3)

KeyloadBuildFew ==
  \/ \E l \in MsgIds : KeyloadNew(l)
  \/ /\ Len(content.keys) < Len(TamperKeys)
     /\ AddRecipient(TamperKeys[Len(content.keys) + 1])

KeyloadRunFew ==
  \/ Len(content.keys) = Len(TamperKeys) /\ KeyloadSizeof
  \/ KeyloadWrap
  \/ KeyloadUnwrap

NextTamper ==
  HdfBuildFew \/ HdfRun \/ KeyloadSetupFew \/ KeyloadBuildFew \/ KeyloadRunFew \/ TamperAny

SpecTamper == Init /\ [][NextTamper]_vars

(* A chain of keyloads: each unwrapped message is committed to the link  *)
(* store and the next one joins any stored link.                          *)
KeyloadBuildLinked ==
  \/ \E l \in DOMAIN store : KeyloadNew(l)
  \/ \E r \in Recipients : AddRecipient(r)

KeyloadCommit == \E ok \in BOOLEAN : CommitUnwrapped(ok)

NextCommit == KeyloadSetupFew \/ KeyloadBuildLinked \/ KeyloadRun \/ KeyloadCommit

SpecCommit == Init /\ [][NextCommit]_vars

(* Keyloads whose recipient list may hold a malformed X25519 entry, on *)
(* which the closure of repeated fails.                                *)
KeyloadBuildShort ==
  \/ \E l \in MsgIds : KeyloadNew(l)
  \/ \E r \in Recipients \cup ShortRecipients : AddRecipient(r)

NextRepeated == KeyloadSetupFew \/ KeyloadBuildShort \/ KeyloadRun

SpecRepeated == Init /\ [][NextRepeated]_vars

(* Headers wrapped into output streams of any capacity, and a Bytes    *)
(* value skipped after the header.                                      *)
MaxRoom == 4

SkippedBytes == {<<>>, <<Lit(7)>>, <<Lit(7), Lit(8)>>}

HdfWrapAny == \E cap \in 0..(osize - 1) : HdfWrapShort(cap)

SkipAny == \E bytes \in SkippedBytes, room \in 0..MaxRoom : SkipBytes(bytes, room)

NextSkip == HdfBuildFew \/ HdfSizeof \/ HdfWrap \/ HdfWrapAny \/ SkipAny

SpecSkip == Init /\ [][NextSkip]_vars

(* The same header script fed by a peer that is not bound to the         *)
(* constructors: it wraps a header with any encoding, version and frame   *)
(* type bytes, so that the MAC covers them, and writes any bytes into the *)
(* two skipped fields, which no MAC covers.                               *)
PeerMark == <<0, 1>>

PeerBytes == {0, 1}

TypeLengthByte0 == {0, 48, 51, 52, 56, 60, 240, 255}

FrameCountByte0 == {0, 4, 8, 12, 63, 64, 128, 192, 255}

LowBytes == {0, 255}

PeerWrap(encoding, version, frame_type) ==
  /\ pc = "hdf_sized"
  /\ LET c == HDF_wrap(WrapCtx(<<>>, osize),
                       [hdf EXCEPT !.encoding = encoding, !.version = version,
                                   !.frame_type = frame_type])
     IN /\ wctx' = WrapDone(c)
        /\ wire' = c.out
  /\ flip' = PeerMark
  /\ pc' = "hdf_wrapped"
  /\ UNCHANGED <<osize, uctx, hvars, kvars, ivars, mvars>>

PeerTypeLength(b0, b1) ==
  /\ pc = "hdf_wrapped"
  /\ wire' = [wire EXCEPT ![3] = Lit(b0), ![4] = Lit(b1)]
  /\ flip' = PeerMark
  /\ UNCHANGED <<pc, osize, wctx, uctx, hvars, kvars, ivars, mvars>>

PeerFrameCount(b0, b1, b2) ==
  /\ pc = "hdf_wrapped"
  /\ wire' = [wire EXCEPT ![6] = Lit(b0), ![7] = Lit(b1), ![8] = Lit(b2)]
  /\ flip' = PeerMark
  /\ UNCHANGED <<pc, osize, wctx, uctx, hvars, kvars, ivars, mvars>>

HdfBuildPeer ==
  \E sq \in Sequences, tp \in Topics : HdfNew(3, sq, PskId(9), tp)

PeerWrapAny == \E e \in PeerBytes, v \in PeerBytes, ft \in PeerBytes : PeerWrap(e, v, ft)

PeerSkipAny ==
  \/ \E b0 \in TypeLengthByte0, lo \in LowBytes : PeerTypeLength(b0, lo)
  \/ \E b0 \in FrameCountByte0, lo \in LowBytes : PeerFrameCount(b0, lo, lo)

NextPeer == HdfBuildPeer \/ HdfRun \/ PeerWrapAny \/ PeerSkipAny

SpecPeer == Init /\ [][NextPeer]_vars

(* The header of an earlier message, which the caller hands to unwrap   *)
(* again: every field differs from what the headers above decode to.    *)
CallerHdf ==
  [encoding |-> 1, version |-> STREAMS_1_VER, message_type |-> 15,
   payload_length |-> 767, frame_type |-> HDF_ID, payload_frame_count |-> 66051,
   linked_msg_address |-> MsgId(6), sequence |-> 9,
   publisher |-> EdPubKey(7), topic_hash |-> TopicHashOf(<<Lit(117)>>)]

TamperMac == \E bit \in {0, 7} : Tamper(Len(wire), bit)

NextCaller ==
  HdfBuildPeer \/ HdfSizeof \/ HdfWrap \/ PeerWrapAny \/ PeerSkipAny \/ TamperMac
    \/ HdfUnwrapInto(CallerHdf)

SpecCaller == Init /\ [][NextCaller]_vars

(* ------------------------------------------------------------------ *)
(* Properties                                                         *)
(* ------------------------------------------------------------------ *)
Ids(keys) == [j \in 1..Len(keys) |-> keys[j].id]

Material == DOMAIN psk_store \cup DOMAIN ke_sk_store

(* Every PSK the unwrapper holds is the one the author holds for that id. *)
Genuine == \A n \in PskNumbers : PskId(n) \in DOMAIN psk_store => psk_store[PskId(n)] = Psk(n)

Decryptable == \E j \in 1..Len(content.keys) : content.keys[j].id \in Material

HdfDone == pc = "hdf_unwrapped"

KeyloadDone == pc = "k_unwrapped"

Intact == flip = NoFlip

(* The stream offset before entry j on the wrap side. *)
EntryStart(j) ==
  IF j = 1 THEN MsgIdSize + NonceSize + 1 + SizeBytes(Len(content.keys)) ELSE wctx.offs[j - 1]

(* The sponge of the keyload after join and nonce. *)
AfterNonce == SpAbsorb(JoinState(store[content.link], content.link), content.nonce)

(* C1: unwrapping the bytes HDF wrap produced, from the same initial      *)
(* sponge, succeeds, consumes all of them, yields an HDF equal field by   *)
(* field to the wrapped one and leaves the same sponge as wrap did.       *)
C1_HdfRoundTrip ==
  HdfDone /\ Intact =>
    /\ uctx.err = ""
    /\ uhdf = hdf
    /\ uctx.sp = wctx.sp
    /\ uctx.pos = Len(wire)

C1_Witness ==
  /\ HdfDone
  /\ uhdf = hdf
  /\ hdf.message_type = 15
  /\ hdf.payload_length = 1023
  /\ hdf.linked_msg_address # <<>>
  /\ hdf.sequence > 255
  /\ hdf.publisher = PskId(9)

(* C2: for every HDF and every keyload content, wrap succeeds in a buffer *)
(* of the size sizeof counted and writes exactly that many bytes.         *)
C2_SizeofExact ==
  pc \in {"hdf_wrapped", "hdf_unwrapped", "k_wrapped", "k_unwrapped"} =>
    /\ wctx.err = ""
    /\ wctx.len = osize
    /\ Len(wire) = osize

C2_Witness ==
  /\ pc = "k_wrapped"
  /\ Len(content.keys) = 2
  /\ IsPskId(content.keys[1].id)
  /\ ~IsPskId(content.keys[2].id)
  /\ wctx.len = osize
  /\ osize = 240

(* C3: after any single bit of a wrapped HDF, or of a keyload unwrapped   *)
(* by a recipient holding genuine material for one branch, is flipped,    *)
(* unwrap returns an error.                                               *)
C3_TamperDetected ==
  /\ HdfDone /\ ~Intact => uctx.err # ""
  /\ KeyloadDone /\ ~Intact /\ Genuine /\ Cardinality(Material) = 1 /\ Decryptable =>
       uctx.err # ""

(* C4: an unwrapper holding genuine material for at least one entry of    *)
(* the recipient list, at any position, finishes successfully with        *)
(* exactly the wrapped session key.                                       *)
C4_Agreement ==
  KeyloadDone /\ Intact /\ Genuine /\ Decryptable =>
    /\ uctx.err = ""
    /\ kres.key = content.key
    /\ uctx.sp = wctx.sp

C4_Witness ==
  /\ KeyloadDone
  /\ removed = {}
  /\ Len(content.keys) = 2
  /\ IsPskId(content.keys[1].id)
  /\ content.keys[1].id \notin Material
  /\ content.keys[2].id \in DOMAIN ke_sk_store
  /\ kres.key = content.key
  /\ uctx.err = ""

(* C5: once the material of one recipient is removed from the stores, a   *)
(* second unwrap of the same keyload still succeeds with the same         *)
(* key_ids; it recovers the same key while material for another entry is  *)
(* left, and no key when none is left.                                    *)
C5_BranchIsolation ==
  KeyloadDone /\ Intact /\ removed # {} /\ Genuine /\ kprev.err = "" =>
    /\ uctx.err = ""
    /\ kres.key_ids = kprev.key_ids
    /\ kres.key = IF Decryptable THEN kprev.key ELSE <<>>

C5_Witness ==
  /\ KeyloadDone
  /\ removed = {PskId(1)}
  /\ Ids(content.keys) = <<PskId(1), EdPubKey(3)>>
  /\ kprev.key = content.key
  /\ kprev.err = ""
  /\ kres.key = <<>>
  /\ uctx.err = ""

(* C6: after every entry, found or dropped, the unwrap cursor is where    *)
(* the wrap cursor was after that entry; a dropped PskId branch is 32     *)
(* bytes and a dropped EdPubKey branch 64 bytes after its identifier.     *)
C6_DeadBranchAlignment ==
  KeyloadDone /\ Intact =>
    /\ kres.offs = wctx.offs
    /\ Len(kres.offs) = Len(content.keys)
    /\ \A j \in 1..Len(content.keys) :
         content.keys[j].id \notin Material =>
           kres.offs[j] - EntryStart(j) - (1 + Len(content.keys[j].id.bytes))
             = IF IsPskId(content.keys[j].id) THEN 32 ELSE 64

C6_Witness ==
  /\ KeyloadDone
  /\ Len(content.keys) = 2
  /\ ~IsPskId(content.keys[1].id)
  /\ IsPskId(content.keys[2].id)
  /\ content.keys[1].id \notin Material
  /\ content.keys[2].id \notin Material
  /\ kres.offs = wctx.offs
  /\ Len(kres.offs) = 2

(* C7: after a successful unwrap key_ids is the list of the message's     *)
(* recipient identifiers in wire order, one per entry, found or not.      *)
C7_KeyIds ==
  KeyloadDone /\ Intact /\ uctx.err = "" =>
    /\ kres.key_ids = Ids(content.keys)
    /\ Len(kres.key_ids) = Len(content.keys)

C7_Witness ==
  /\ KeyloadDone
  /\ uctx.err = ""
  /\ Len(kres.key_ids) = 2
  /\ kres.key_ids[1] \in Material
  /\ kres.key_ids[2] \notin Material
  /\ ~IsPskId(kres.key_ids[2])

(* C8: after a successful unwrap key is the session key if some entry of  *)
(* the list has material in the stores, and None otherwise.               *)
C8_KeyIffDecryptable ==
  KeyloadDone /\ Intact /\ uctx.err = "" =>
    kres.key = IF Decryptable THEN content.key ELSE <<>>

C8_Witness ==
  /\ KeyloadDone
  /\ uctx.err = ""
  /\ Len(content.keys) = 2
  /\ Material # {}
  /\ ~Decryptable
  /\ kres.key = <<>>

(* C9: with no key recovered unwrap returns Ok with the sponge as it was  *)
(* after the nonce and the 64 signature bytes unread; a signature error   *)
(* occurs only with a key recovered.                                      *)
C9_SignatureOnlyWithKey ==
  KeyloadDone /\ Intact =>
    /\ kres.key = <<>> =>
         /\ uctx.err = ""
         /\ uctx.pos = Len(wire) - SignatureSize
         /\ uctx.sp = AfterNonce
    /\ kres.key # <<>> => uctx.pos = Len(wire)
    /\ uctx.err = "SignatureInvalid" => kres.key # <<>>

C9_Witness ==
  /\ KeyloadDone
  /\ Len(content.keys) = 2
  /\ kres.key = <<>>
  /\ uctx.err = ""
  /\ uctx.pos = Len(wire) - SignatureSize
  /\ uctx.sp # wctx.sp

(* C10: when every entry was read and a key recovered, a flipped bit in   *)
(* the trailing 64 signature bytes, or a recovered key other than the     *)
(* wrapped one, makes unwrap fail with SignatureInvalid.                  *)
C10_SignatureForgery ==
  KeyloadDone /\ kres.key # <<>> /\ Len(kres.offs) = Len(content.keys) =>
    /\ flip[1] > Len(wire) - SignatureSize => uctx.err = "SignatureInvalid"
    /\ kres.key # content.key => uctx.err = "SignatureInvalid"

C10_Witness ==
  /\ KeyloadDone
  /\ flip = <<Len(wire), 7>>
  /\ DOMAIN ke_sk_store = {}
  /\ kres.key = content.key
  /\ uctx.err = "SignatureInvalid"

(* C11: HDF::new fails exactly when message_type > 15 and                *)
(* with_payload_length exactly when payload_length > 1023 (0 is taken);  *)
(* every HDF the constructors return has message_type <= 15,             *)
(* payload_length <= 1023, payload_frame_count <= 2^22 - 1 and the       *)
(* version, frame type and encoding constants.                           *)
C11_ConstructorsValidate ==
  /\ (herr = "invalid content-type") = (args.message_type > 15)
  /\ (herr = "invalid payload_length") = (args.payload_length > 1023)
  /\ (pc = "failed") = (herr # "")
  /\ herr = "" =>
       /\ hdf.message_type = args.message_type
       /\ "payload_length" \in built => hdf.payload_length = args.payload_length
       /\ hdf.message_type <= 15
       /\ hdf.payload_length <= 1023
       /\ hdf.payload_frame_count <= 2 ^ 22 - 1
       /\ hdf.version = STREAMS_1_VER
       /\ hdf.frame_type = HDF_ID
       /\ hdf.encoding = UTF8

C11_Witness ==
  /\ pc = "hdf"
  /\ herr = ""
  /\ built = {"payload_length", "linked_msg_address"}
  /\ args.payload_length = 0
  /\ hdf.payload_length = 0
  /\ hdf.message_type = 15

(* C12: a header whose message-type/payload-length pair has bit 2 or bit *)
(* 3 of byte 0 set is rejected; the failure comes with the cursor after  *)
(* that pair at the latest, and for a supported version it is the        *)
(* reserved-bits error with only the encoding and version bytes absorbed *)
(* and no MAC squeezed.                                                  *)
C12_ReservedBitsRejected ==
  HdfDone /\ BitAnd(wire[3].v, 12) # 0 =>
    /\ uctx.err # ""
    /\ uctx.pos <= 4
    /\ wire[2] = Lit(STREAMS_1_VER) =>
         /\ uctx.err = "ReservedBitsSet"
         /\ uctx.pos = 4
         /\ uctx.sp = <<wire[1], wire[2]>>

C12_Witness ==
  /\ HdfDone
  /\ wire[2] = Lit(STREAMS_1_VER)
  /\ wire[3] = Lit(52)
  /\ wire[6] = Lit(0)
  /\ uctx.err = "ReservedBitsSet"
  /\ uctx.pos = 4

(* The header bytes before the frame count pass their guards. *)
ReachedFrameCount ==
  /\ HdfDone
  /\ wire[2] = Lit(STREAMS_1_VER)
  /\ BitAnd(wire[3].v, 12) = 0
  /\ wire[5] = Lit(HDF_ID)

(* C13: the 3-byte frame count is rejected by its guard exactly when bit *)
(* 7 or bit 6 of its byte 0 is set; with both zero it passes the guard   *)
(* and an accepted header carries the big-endian value of the 3 bytes.   *)
C13_FrameCountGuard ==
  ReachedFrameCount =>
    /\ wire[6].v >= 64 => uctx.err = "ReservedBitsSet" /\ uctx.pos = 8
    /\ wire[6].v < 64 =>
         /\ uctx.pos > 8
         /\ uctx.err = "" => uhdf.payload_frame_count = BeValue(SubSeq(wire, 6, 8))

(* C14: an accepted header has the version byte STREAMS_1_VER and the    *)
(* frame-type byte HDF_ID; another version fails with the version error  *)
(* once the encoding and version bytes are absorbed, and another frame   *)
(* type fails once the frame-type byte is absorbed, before the frame     *)
(* count is read.                                                        *)
C14_VersionAndFrameType ==
  HdfDone =>
    /\ uctx.err = "" => wire[2] = Lit(STREAMS_1_VER) /\ wire[5] = Lit(HDF_ID)
    /\ wire[2] # Lit(STREAMS_1_VER) =>
         /\ uctx.err = "VersionMismatch"
         /\ uctx.pos = 2
         /\ uctx.sp = <<wire[1], wire[2]>>
    /\ wire[2] = Lit(STREAMS_1_VER) /\ BitAnd(wire[3].v, 12) = 0 /\ wire[5] # Lit(HDF_ID) =>
         /\ uctx.err = "FrameTypeMismatch"
         /\ uctx.pos = 5
         /\ uctx.sp = <<wire[1], wire[2], Lit(BitAnd(wire[3].v, 240)), wire[5]>>

C14_Witness ==
  /\ HdfDone
  /\ wire[2] = Lit(STREAMS_1_VER)
  /\ wire[3] = Lit(240)
  /\ wire[5] = Lit(1)
  /\ uctx.err = "FrameTypeMismatch"
  /\ uctx.pos = 5

(* C15: every header HDF unwrap accepts has encoding UTF8, that is, a    *)
(* message whose encoding byte is another value is not accepted.         *)
C15_EncodingIsUtf8 ==
  HdfDone /\ uctx.err = "" => uhdf.encoding = UTF8 /\ wire[1] = Lit(UTF8)

(* The keyload sponge outside every fork: the joined link state, the     *)
(* nonce, the external session key, commit.                              *)
OutsideForks == SpCommit(SpAbsorb(AfterNonce, content.key))

(* C16: after a successful keyload wrap, and after a successful unwrap   *)
(* that recovered the key, the context sponge is the joined link state   *)
(* followed by absorb(nonce), absorb(external key) and commit only: what *)
(* ran inside the forks left no trace, on both sides and whatever the    *)
(* recipient list.                                                       *)
C16_ForkIsolation ==
  /\ pc \in {"k_wrapped", "k_unwrapped"} /\ wctx.err = "" => wctx.sp = OutsideForks
  /\ KeyloadDone /\ Intact /\ uctx.err = "" /\ kres.key # <<>> =>
       /\ uctx.sp = OutsideForks
       /\ uctx.sp = wctx.sp

C16_Witness ==
  /\ KeyloadDone
  /\ uctx.err = ""
  /\ Len(content.keys) = 2
  /\ content.keys[2].id \in DOMAIN psk_store
  /\ content.keys[1].id \in DOMAIN ke_sk_store
  /\ kres.key = content.key
  /\ wctx.sp = OutsideForks
  /\ uctx.sp = OutsideForks

(* C17: the Identity built by any constructor, and the one the unwrap    *)
(* side mask fills in, carries the identifier to_identifier gives for    *)
(* its IdentityKind; identities of equal kind have equal identifiers,    *)
(* and an identity read back from its own bytes is the identity sent.    *)
C17_IdentityIdentifier ==
  /\ identity.identifier = to_identifier(identity.identitykind)
  /\ uidentity.identifier = to_identifier(uidentity.identitykind)
  /\ identity.identitykind = uidentity.identitykind =>
       identity.identifier = uidentity.identifier
  /\ pc = "id_unwrapped" /\ Intact =>
       /\ uctx.err = ""
       /\ uctx.pos = Len(wire)
       /\ uidentity = identity

C17_Witness ==
  /\ pc = "id_unwrapped"
  /\ Intact
  /\ identity.identitykind = DIDKind(3)
  /\ uidentity.identitykind = DIDKind(3)
  /\ uidentity.identifier = DidIdentifier(Lits(DidUriSize, 3))

(* s starts with the sponge t. *)
ResumesFrom(s, t) == Len(s) >= Len(t) /\ SubSeq(s, 1, Len(t)) = t

(* C18: UnwrappedMessage::commit stores the committed sponge of the      *)
(* message under the message's link and returns the content only when    *)
(* the store took it; every stored sponge is in committed state, and a   *)
(* later message that joins a link starts from the sponge stored there.  *)
C18_CommitThenUpdate ==
  /\ \A l \in DOMAIN store : store[l] # <<>> /\ store[l][Len(store[l])] = CommitTok
  /\ pc = "k_committed" =>
       /\ ucommit.link = MsgAddress(content.link)
       /\ ucommit.err = "" =>
            /\ ucommit.link \in DOMAIN store
            /\ store[ucommit.link] = SpCommit(uctx.sp)
            /\ ucommit.content = <<kres>>
       /\ ucommit.err # "" => ucommit.content = <<>>
  /\ pc \in {"k_wrapped", "k_unwrapped"} /\ wctx.err = "" =>
       ResumesFrom(wctx.sp, store[content.link])
  /\ KeyloadDone /\ Intact /\ uctx.err = "" => ResumesFrom(uctx.sp, store[content.link])

C18_Witness ==
  /\ KeyloadDone
  /\ uctx.err = ""
  /\ content.link = MsgId(6)
  /\ MsgId(6) \in DOMAIN store
  /\ store[MsgId(6)] = SpCommit(SpAbsorb(JoinState(store[MsgId(5)], MsgId(5)), Nonce))
  /\ ResumesFrom(uctx.sp, store[MsgId(6)])
  /\ Len(content.keys) = 2
  /\ kres.key = <<>>

(* C19: the pair wrap writes for message type t and payload length n is  *)
(* byte 0 = 16 t + n div 256, hence with bits 2 and 3 zero, and byte 1 = *)
(* n mod 256; unwrap of the pair gives t and n back.                     *)
C19_TypeLengthPacking ==
  pc \in {"hdf_wrapped", "hdf_unwrapped"} /\ Intact =>
    /\ wire[3] = Lit(16 * hdf.message_type + hdf.payload_length \div 256)
    /\ (wire[3].v \div 4) % 4 = 0
    /\ wire[4] = Lit(hdf.payload_length % 256)
    /\ HdfDone =>
         /\ uhdf.message_type = hdf.message_type
         /\ uhdf.payload_length = hdf.payload_length

C19_Witness ==
  /\ HdfDone
  /\ hdf.message_type = 15
  /\ hdf.payload_length = 1023
  /\ wire[3] = Lit(243)
  /\ wire[4] = Lit(255)
  /\ uhdf.payload_length = 1023
  /\ uhdf.message_type = 15
  /\ hdf.linked_msg_address = <<>>

Op(o, a) == <<o, a>>

HDF_sizeof_ops ==
  << Op("absorb", "encoding"), Op("absorb", "version"),
     Op("skip", "message_type_and_payload_length"),
     Op("absorb", "external message_type"), Op("absorb", "frame_type"),
     Op("skip", "payload_frame_count"),
     Op("absorb", "maybe linked_msg_address"),
     Op("mask", "topic_hash"), Op("mask", "publisher"),
     Op("skip", "size sequence"), Op("commit", ""), Op("squeeze", "MAC") >>

HDF_wrap_ops ==
  << Op("absorb", "encoding"), Op("absorb", "version"),
     Op("skip", "message_type_and_payload_length"),
     Op("absorb", "external message_type"), Op("absorb", "frame_type"),
     Op("skip", "payload_frame_count"),
     Op("absorb", "maybe linked_msg_address"),
     Op("mask", "topic_hash"), Op("mask", "publisher"),
     Op("skip", "size sequence"), Op("commit", ""), Op("squeeze", "MAC") >>

(* The commands of a successful HDF unwrap, its guards included. *)
HDF_unwrap_ops ==
  << Op("absorb", "encoding"), Op("absorb", "version"), Op("guard", "version"),
     Op("skip", "message_type_and_payload_length"),
     Op("guard", "message_type_and_payload_length"),
     Op("absorb", "external message_type"), Op("absorb", "frame_type"),
     Op("guard", "frame_type"),
     Op("skip", "payload_frame_count"), Op("guard", "payload_frame_count"),
     Op("absorb", "maybe linked_msg_address"),
     Op("mask", "topic_hash"), Op("mask", "publisher"),
     Op("skip", "size sequence"), Op("commit", ""), Op("squeeze", "MAC") >>

(* The commands of the closure repeated runs for one (id, store_id). *)
Entry_sizeof_ops(item) ==
  << Op("mask", "identifier"), Op("fork", "") >>
  \o (IF IsPskId(item.id)
      THEN << Op("absorb", "external psk"), Op("commit", ""), Op("mask", "key") >>
      ELSE << Op("x25519", "key") >>)
  \o << Op("end", "") >>

Entry_wrap_ops(item) ==
  << Op("mask", "identifier"), Op("fork", "") >>
  \o (IF IsPskId(item.id)
      THEN << Op("absorb", "external psk"), Op("commit", ""), Op("mask", "key") >>
      ELSE << Op("x25519", "key") >>)
  \o << Op("end", "") >>

(* The same for an identifier read from the stream, given the stores. *)
Entry_unwrap_ops(id, psks, ke_sks) ==
  << Op("mask", "identifier"), Op("fork", "") >>
  \o (IF IsPskId(id)
      THEN IF id \in DOMAIN psks
           THEN << Op("absorb", "external psk"), Op("commit", ""), Op("mask", "key") >>
           ELSE << Op("drop", "KeySize") >>
      ELSE IF id \in DOMAIN ke_sks
           THEN << Op("x25519", "key") >>
           ELSE << Op("drop", "64") >>)
  \o << Op("end", "") >>

Keyload_sizeof_ops(keys) ==
  LET body[k \in 0..Len(keys)] ==
        IF k = 0 THEN <<>> ELSE body[k - 1] \o Entry_sizeof_ops(keys[k])
  IN << Op("join", "link"), Op("absorb", "nonce"), Op("fork", ""),
        Op("absorb", "size keys"), Op("repeated", "keys") >>
     \o body[Len(keys)]
     \o << Op("end", ""), Op("absorb", "external key"), Op("fork", ""),
           Op("ed25519", "sig"), Op("end", ""), Op("commit", "") >>

Keyload_wrap_ops(keys) ==
  LET body[k \in 0..Len(keys)] ==
        IF k = 0 THEN <<>> ELSE body[k - 1] \o Entry_wrap_ops(keys[k])
  IN << Op("join", "link"), Op("absorb", "nonce"), Op("fork", ""),
        Op("absorb", "size keys"), Op("repeated", "keys") >>
     \o body[Len(keys)]
     \o << Op("commit", ""), Op("squeeze", "external id_hash"), Op("end", ""),
           Op("absorb", "external key"), Op("fork", ""),
           Op("absorb", "external id_hash"), Op("ed25519", "sig"),
           Op("end", ""), Op("commit", "") >>

(* The commands of a successful keyload unwrap that read the identifiers *)
(* ids and ended with the given key.                                     *)
Keyload_unwrap_ops(ids, psks, ke_sks, key) ==
  LET body[k \in 0..Len(ids)] ==
        IF k = 0 THEN <<>> ELSE body[k - 1] \o Entry_unwrap_ops(ids[k], psks, ke_sks)
  IN << Op("join", "link"), Op("absorb", "nonce"), Op("fork", ""),
        Op("absorb", "size keys"), Op("repeated", "keys") >>
     \o body[Len(ids)]
     \o << Op("commit", ""), Op("squeeze", "external id_hash"), Op("end", "") >>
     \o (IF key # <<>>
         THEN << Op("absorb", "external key"), Op("fork", ""),
                 Op("absorb", "external id_hash"), Op("ed25519", "sig"),
                 Op("end", ""), Op("commit", "") >>
         ELSE <<>>)

(* A command sequence without its guards. *)
Unguarded(ops) == SelectSeq(ops, LAMBDA o : o[1] # "guard")

(* C21: for HDF and for Keyload, sizeof, wrap and a successful unwrap   *)
(* run the same sequence of operators on the same operands, also when   *)
(* unwrap recovers no key.                                              *)
C21_SameOperatorSequence ==
  /\ HdfDone /\ uctx.err = "" =>
       /\ HDF_sizeof_ops = HDF_wrap_ops
       /\ Unguarded(HDF_unwrap_ops) = HDF_wrap_ops
  /\ KeyloadDone /\ uctx.err = "" =>
       /\ Keyload_sizeof_ops(content.keys) = Keyload_wrap_ops(content.keys)
       /\ Keyload_unwrap_ops(kres.key_ids, psk_store, ke_sk_store, kres.key)
            = Keyload_wrap_ops(content.keys)

(* The last entry of the keyload whose X25519 secret the unwrapper holds *)
(* and after which no entry is decryptable; 0 when there is none.        *)
LastEdEntry ==
  LET live == {j \in 1..Len(content.keys) :
                 /\ ~IsPskId(content.keys[j].id)
                 /\ content.keys[j].id \in DOMAIN ke_sk_store
                 /\ \A i \in (j + 1)..Len(content.keys) : content.keys[i].id \notin Material}
  IN IF live = {} THEN 0 ELSE CHOOSE j \in live : TRUE

(* The stream offset of the ephemeral public key of entry j. *)
EphemeralStart(j) == EntryStart(j) + 1 + PublicKeySize

(* The sponge the key of entry j was masked with, as the first masked   *)
(* byte on the stream records it.                                       *)
MaskState(j) == Tail(wire[EphemeralStart(j) + PublicKeySize + 1].s)

(* C22: unwrap-side x25519 absorbs the 32-byte ephemeral public key     *)
(* from the stream, absorbs the shared secret of (local secret,         *)
(* ephemeral key) without reading the stream, commits, and only then    *)
(* unmasks the key; it consumes exactly 32 + N bytes for an N-byte key. *)
C22_X25519Order ==
  KeyloadDone /\ Intact /\ LastEdEntry > 0 =>
    LET j == LastEdEntry
        q == EphemeralStart(j)
        epk == SubSeq(wire, q + 1, q + PublicKeySize)
        st == MaskState(j)
        n == Len(st)
    IN /\ uctx.err = ""
       /\ kres.offs[j] = q + PublicKeySize + KeySize
       /\ st[n] = CommitTok
       /\ st[n - 1] = diffie_hellman(ke_sk_store[content.keys[j].id], epk)
       /\ SubSeq(st, n - 1 - PublicKeySize, n - 2) = epk
       /\ kres.key = SpDecrypt(st, SubSeq(wire, q + PublicKeySize + 1,
                                          q + PublicKeySize + KeySize))
       /\ kres.key = content.key
       /\ kres.ke_pk = content.keys[j].id.bytes

C22_Witness ==
  /\ KeyloadDone
  /\ Len(content.keys) = 2
  /\ LastEdEntry = 2
  /\ IsPskId(content.keys[1].id)
  /\ content.keys[1].id \notin Material
  /\ kres.key = content.key
  /\ kres.offs[2] = EphemeralStart(2) + PublicKeySize + KeySize
  /\ uctx.pos = Len(wire)

(* The bytes one well-formed recipient entry adds to the keyload. *)
EntrySize(item) ==
  1 + IdLen(item.id.tag) + (IF IsPskId(item.id) THEN KeySize ELSE PublicKeySize + KeySize)

(* The index of the first entry the sizeof closure fails on; 0 if none. *)
FirstShort(keys) ==
  LET short == {j \in 1..Len(keys) :
                  ~IsPskId(keys[j].id) /\ Len(keys[j].store_id) # PublicKeySize}
  IN IF short = {} THEN 0 ELSE CHOOSE j \in short : \A i \in short : j <= i

(* The bytes of the first n entries. *)
EntriesSize(keys, n) ==
  LET sum[k \in 0..n] == IF k = 0 THEN 0 ELSE sum[k - 1] + EntrySize(keys[k])
  IN sum[n]

(* The bytes counted before repeated runs: link, nonce and the count. *)
BeforeRepeated == MsgIdSize + NonceSize + 1 + SizeBytes(Len(content.keys))

(* C23: repeated runs the closure once per item, in the order of the    *)
(* items; after the closure fails on item k it is not run for a later   *)
(* item and repeated returns that error; with no item the context is    *)
(* left as it was.                                                      *)
C23_RepeatedInOrder ==
  /\ pc \in {"k_sized", "k_failed"} =>
       LET k == FirstShort(content.keys)
       IN /\ k = 0 =>
               /\ pc = "k_sized"
               /\ serr = ""
               /\ osize = BeforeRepeated + EntriesSize(content.keys, Len(content.keys))
                            + SignatureSize
          /\ k > 0 =>
               /\ pc = "k_failed"
               /\ serr = "TryFromSliceError"
               /\ osize = BeforeRepeated + EntriesSize(content.keys, k - 1)
                            + 1 + PublicKeySize
  /\ KeyloadDone /\ Intact =>
       /\ kres.key_ids = Ids(content.keys)
       /\ Len(wctx.offs) = Len(content.keys)
       /\ kres.offs = wctx.offs
       /\ \A j \in 1..Len(content.keys) :
            /\ wctx.offs[j] = EntryStart(j) + EntrySize(content.keys[j])
            /\ wire[EntryStart(j) + 1].s[1] = Lit(content.keys[j].id.tag)

C23_Witness ==
  /\ pc = "k_failed"
  /\ Len(content.keys) = 2
  /\ FirstShort(content.keys) = 1
  /\ content.keys[2] \in Recipients
  /\ serr = "TryFromSliceError"
  /\ osize = BeforeRepeated + 1 + PublicKeySize

(* The sponge of the header script before skip(Size(sequence)): what  *)
(* the script absorbs and masks, and none of the skipped fields.         *)
HeaderAbsorbed ==
  << Lit(hdf.encoding), Lit(hdf.version), Lit(16 * hdf.message_type), Lit(hdf.frame_type) >>
  \o MaybeBytes(hdf.linked_msg_address) \o hdf.topic_hash
  \o << Lit(hdf.publisher.tag) >> \o hdf.publisher.bytes

(* The stream offset of the skipped sequence number. *)
SequenceStart == osize - MacSize - 1 - SizeBytes(hdf.sequence)

(* C24: wrap-side skip writes its operand in the clear and leaves the   *)
(* sponge as it was: NBytes as its N bytes, Size as its encoding, Bytes *)
(* as Size(len) and the len bytes; with too few bytes left in the       *)
(* stream it fails and the sponge is still as it was.                   *)
C24_SkipInTheClear ==
  /\ pc \in {"hdf_wrapped", "hdf_skipped"} /\ flip = NoFlip =>
       /\ SubSeq(wire, 3, 4) = WrapTypeAndLength(hdf)
       /\ SubSeq(wire, 6, 8) = WrapFrameCount(hdf)
       /\ SubSeq(wire, SequenceStart + 1, osize - MacSize) = SizeEnc(hdf.sequence)
       /\ wctx.sp = SpAfterSqueeze(SpCommit(HeaderAbsorbed), MacSize)
  /\ pc = "hdf_skipped" =>
       LET n == Len(oarg.bytes)
       IN /\ oarg.cap - osize >= 1 + SizeBytes(n) + n =>
               /\ wctx.err = ""
               /\ wire = SubSeq(wire, 1, osize) \o SizeEnc(n) \o oarg.bytes
          /\ oarg.cap - osize < 1 + SizeBytes(n) + n =>
               /\ wctx.err = "StreamExhausted"
               /\ Len(wire) < osize + 1 + SizeBytes(n) + n
  /\ pc = "hdf_wrap_failed" =>
       /\ wctx.err = "StreamExhausted"
       /\ oarg.cap \in 2..3 =>
            wctx.len = 2 /\ wctx.sp = << Lit(hdf.encoding), Lit(hdf.version) >>
       /\ oarg.cap \in 5..7 =>
            wctx.len = 5 /\ wctx.sp = SubSeq(HeaderAbsorbed, 1, 4)
       /\ oarg.cap \in SequenceStart..(osize - MacSize - 1) =>
            wctx.len = SequenceStart /\ wctx.sp = HeaderAbsorbed

C24_Witness ==
  /\ pc = "hdf_wrap_failed"
  /\ oarg.cap = osize - MacSize - 1
  /\ hdf.sequence > 255
  /\ wctx.err = "StreamExhausted"
  /\ wctx.len = SequenceStart
  /\ wctx.sp = HeaderAbsorbed

(* The fields HDF unwrap assigns from its locals. *)
AssignedFields(h) ==
  << h.encoding, h.version, h.message_type, h.payload_length, h.frame_type,
     h.payload_frame_count, h.sequence >>

(* C25: when HDF unwrap fails on a header guard (version, reserved bits *)
(* of the type/length pair, frame type, reserved bits of the frame      *)
(* count) the caller's HDF is as it was; encoding, version,             *)
(* message_type, payload_length, frame_type, payload_frame_count and    *)
(* sequence are written only once the MAC squeeze has succeeded.        *)
C25_GuardFailureLeavesHdf ==
  pc = "hdf_unwrapped_into" =>
    /\ uctx.err \in {"VersionMismatch", "ReservedBitsSet", "FrameTypeMismatch"} =>
         /\ uhdf = CallerHdf
         /\ uctx.pos <= 8
    /\ uctx.err # "" => AssignedFields(uhdf) = AssignedFields(CallerHdf)
    /\ uctx.err = "" =>
         /\ uctx.pos = Len(wire)
         /\ AssignedFields(uhdf) =
              << wire[1].v, wire[2].v, wire[3].v \div 16,
                 256 * (wire[3].v % 4) + wire[4].v, wire[5].v,
                 65536 * wire[6].v + 256 * wire[7].v + wire[8].v, hdf.sequence >>
         /\ uhdf.linked_msg_address = hdf.linked_msg_address
         /\ uhdf.publisher = hdf.publisher
         /\ uhdf.topic_hash = hdf.topic_hash

C25_Witness ==
  /\ pc = "hdf_unwrapped_into"
  /\ uctx.err = "ReservedBitsSet"
  /\ uctx.pos = 8
  /\ wire[1] = Lit(0)
  /\ wire[3] = Lit(51)
  /\ wire[6] = Lit(4)
  /\ uhdf = CallerHdf

====
